---- MODULE Spec2Model ----
(***************************************************************************)
(* Model of the waka -> Airtable sync scripts.                             *)
(*                                                                         *)
(*   variant = "batched" : src/unnamed/part_001 (batched lookup, Map queue)*)
(*   variant = "perrow"  : src/index.js (one lookup per row, array queue)  *)
(*                                                                         *)
(* Each action is one synchronous stretch of processRecords /              *)
(* lookupAndUpdateUsers between two awaits.  The source database and the   *)
(* Airtable base are the environment: a query returns the next page of a   *)
(* static table of nRows users or throws, a lookup returns the matching    *)
(* records of a static Airtable table or throws, a bulk update succeeds or *)
(* throws.                                                                 *)
(*                                                                         *)
(* Scaling: the page size (2500 / 1000 in the source) and the two batch    *)
(* sizes (10 in the source) are scaled down to the values of limit,        *)
(* LookupBatchSize and BatchCapacity below; every formula is stated in     *)
(* terms of these names.                                                   *)
(*                                                                         *)
(* Data abstraction: a source row is its id, its email and its             *)
(* last_heartbeat; timestamps are naturals and 0 stands for SQL NULL       *)
(* (JavaScript orders null below every Date after 1970 under > ).  Emails  *)
(* and ids are non-empty strings, distinct from each other and from the    *)
(* property names of Object.prototype.                                     *)
(***************************************************************************)
EXTENDS Naturals, Sequences, FiniteSets, TLC

\* ---------------------------------------------------------------- bounds
\* Largest number of rows the users table holds.
MaxRows == 4
\* const limit (2500 in part_001, 1000 in index.js), scaled.
limit == 2
\* userLookupBatch.length === 10 in part_001, scaled.
LookupBatchSize == 2
\* updateBatch.size === 10 / updateBatch.length === 10, scaled.
BatchCapacity == 2

\* ------------------------------------------------------------ environment
\* MAX(h.time) of a user without heartbeats (LEFT JOIN): SQL NULL.
NoHeartbeat == 0
Heartbeats == {NoHeartbeat, 1, 2}
Emails == {"e1", "e2"}
\* users.id of the k-th row of the feed (ORDER BY users.created_at ASC).
UserIds == <<"U1", "U2", "U3", "U4", "U5", "U6", "U7", "U8">>

\* Airtable tables the run may meet.  slack_id / email "" is an empty cell.
\* No two records of a table share a slack_id or an email.
TableShared ==
    { [id |-> "recA", slack_id |-> "U1", email |-> "e2"],
      [id |-> "recB", slack_id |-> "",   email |-> "e1"],
      [id |-> "recC", slack_id |-> "U3", email |-> ""],
      [id |-> "recD", slack_id |-> "U4", email |-> ""],
      [id |-> "recE", slack_id |-> "U5", email |-> ""] }
TableSparse ==
    { [id |-> "recA", slack_id |-> "U1", email |-> "e2"],
      [id |-> "recC", slack_id |-> "U3", email |-> ""] }
AirtableTables == {TableShared, TableSparse}

VARIABLES
    variant,                \* which script runs
    fn,                     \* "sync", or the function applied on its own
    arg, result,            \* the argument and the value of that function
    airtable,               \* the Airtable table (static during the run)
    nRows,                  \* number of rows of the users table (static)
    pc,                     \* position in processRecords / lookupAndUpdateUsers
    ret,                    \* where lookupAndUpdateUsers returns to
    clientOpen,             \* client.connect() succeeded and client.end() not yet called
    exitCode,               \* process exit status (0 unless process.exit(1))
    offset, hasMore,        \* let offset, let hasMore
    pageLen,                \* records.length of the current page
    i,                      \* index of the next record of the page (for ... of records)
    record,                 \* index.js: the record whose email lookup is pending
    emailHeartbeatMap,      \* email -> {userId, lastHeartbeat}
    userLookupBatch,        \* [{userId, userEmail}]
    airtableRecordMap,      \* key -> Airtable record, of the current lookup
    j,                      \* index of the next user of userBatch
    updateBatch,            \* queued updates, in insertion order
    airtableErrorOccurred,  \* degraded flag
    fetches,                \* history: number of client.query calls issued
    offered,                \* history: the rows offered to emailHeartbeatMap so far
    lookups,                \* history: the lookup calls issued
    writes,                 \* history: the bulk update calls issued
    sinceFlush              \* history: the entries put in the queue since the last bulk update

vars == <<variant, fn, arg, result, airtable, nRows, pc, ret, clientOpen, exitCode, offset,
          hasMore, pageLen, i, record, emailHeartbeatMap, userLookupBatch,
          airtableRecordMap, j, updateBatch, airtableErrorOccurred, fetches,
          offered, lookups, writes, sinceFlush>>

progVars == <<variant, fn, arg, result, airtable, nRows>>
histVars == <<fetches, offered, lookups, writes, sinceFlush>>

\* ---------------------------------------------------------------- helpers
EmptyMap == [k \in {} |-> 0]
NoRecord == [id |-> "", email |-> "", last_heartbeat |-> NoHeartbeat]

Min(a, b) == IF a < b THEN a ELSE b

\* res.rows.length for LIMIT limit OFFSET off over a table of n rows.
PageLength(n, off) == IF off >= n THEN 0 ELSE Min(limit, n - off)

\* The row at position k (1-based) of the feed: its id is fixed by the
\* position, its email and last_heartbeat are whatever the table holds.
RowsAt(k) ==
    { [id |-> UserIds[k], email |-> e, last_heartbeat |-> h] :
        e \in Emails, h \in Heartbeats }

\* Map.has / index of the entry with this record id (0: none).
IndexOfId(q, id) ==
    IF \E k \in 1..Len(q) : q[k].id = id
    THEN CHOOSE k \in 1..Len(q) : q[k].id = id
    ELSE 0

\* Mutant of HasPending: what is queued at the end of the stream is not sent.
HasPendingNever(q) == FALSE

\* if (updateBatch.size > 0), line 165.
HasPending(q) == Len(q) > 0

\* Mutant of HasRemaining: the users left at the end of a page wait for the
\* next page.
HasRemainingNever(batch) == FALSE

\* if (userLookupBatch.length > 0), line 151.
HasRemaining(batch) == Len(batch) > 0

\* Mutant of OffsetAfter: the offset advances after every page.
OffsetAlwaysAdvanced(off, n) == off + limit

\* if (records.length === limit) offset += limit, lines 157-160.
OffsetAfter(off, n) == IF n = limit THEN off + limit ELSE off

\* Mutant of NotLatest: no row is skipped in favour of a newer one.
NotLatestNever(userId, emailEntry) == FALSE

\* if (userId !== emailEntry.userId) continue, line 233.
NotLatest(userId, emailEntry) == userId # emailEntry.userId

\* updateData and the queued entry; src is the id of the source row the
\* fields were built from (history, not program state).
MakeUpdate(recId, row) ==
    [id |-> recId,
     fields |-> [waka_last_heartbeat |->
                    IF row.last_heartbeat = NoHeartbeat THEN NoHeartbeat
                    ELSE row.last_heartbeat],
     src |-> row.id]

\* Mutant of OfferReplaces: the last row offered for an email always wins.
OfferReplacesLast(m, row) == TRUE

\* if (!emailHeartbeatMap[userEmail] || lastHeartbeat > ...lastHeartbeat)
OfferReplaces(m, row) ==
    \/ row.email \notin DOMAIN m
    \/ row.last_heartbeat > m[row.email].lastHeartbeat

Offer(m, row) ==
    IF OfferReplaces(m, row)
    THEN [e \in DOMAIN m \cup {row.email} |->
            IF e = row.email
            THEN [userId |-> row.id, lastHeartbeat |-> row.last_heartbeat,
                  record |-> row]
            ELSE m[e]]
    ELSE m

\* base(table).select({filterByFormula: OR(OR(slack_id...), OR(email...))}).all()
SelectBatch(table, batch) ==
    { r \in table :
        \/ \E u \in 1..Len(batch) : r.slack_id = batch[u].userId
        \/ \E u \in 1..Len(batch) : r.email = batch[u].userEmail }

\* airtableRecords.forEach(record => { map[slackId] = record; map[email] = record })
BuildRecordMap(recs) ==
    LET keys == ({r.slack_id : r \in recs} \cup {r.email : r \in recs}) \ {""}
    IN  [k \in keys |-> CHOOSE r \in recs : r.slack_id = k \/ r.email = k]

\* Mutant of FindRecordId: the email match is tried first.
FindRecordIdEmailFirst(m, userId, userEmail) ==
    IF userEmail \in DOMAIN m THEN m[userEmail].id
    ELSE IF userId \in DOMAIN m THEN m[userId].id
    ELSE ""

\* airtableRecordMap[userId] || airtableRecordMap[userEmail]  ("" : not found)
FindRecordId(m, userId, userEmail) ==
    IF userId \in DOMAIN m THEN m[userId].id
    ELSE IF userEmail \in DOMAIN m THEN m[userEmail].id
    ELSE ""

\* Mutant of MergeReplaces: a tie replaces the queued entry too.
MergeReplacesOnTie(existing, emailRecord) ==
    emailRecord.last_heartbeat >= existing.fields.waka_last_heartbeat

\* if (emailRecord.last_heartbeat > existingLastHeartbeat)
MergeReplaces(existing, emailRecord) ==
    emailRecord.last_heartbeat > existing.fields.waka_last_heartbeat

\* Mutant of Enqueue: a newer row overwrites the fields of the queued entry
\* and leaves the rest of the entry as the older row built it.
EnqueueMergingFields(q, recId, emailRecord) ==
    LET k == IndexOfId(q, recId)
        u == MakeUpdate(recId, emailRecord)
    IN  IF k = 0 THEN Append(q, u)
        ELSE IF MergeReplaces(q[k], emailRecord)
             THEN [q EXCEPT ![k].fields = u.fields]
        ELSE q

\* updateBatch.has / get / set of lines 268-290.
Enqueue(q, recId, emailRecord) ==
    LET k == IndexOfId(q, recId)
        u == MakeUpdate(recId, emailRecord)
    IN  IF k = 0 THEN Append(q, u)
        ELSE IF MergeReplaces(q[k], emailRecord) THEN [q EXCEPT ![k] = u]
        ELSE q

\* History: what the step from queue q to queue q2 for record recId put in
\* the queue (a replaced entry is no longer one to send).
Noted(since, q, q2, recId) ==
    IF q2 = q THEN since
    ELSE {e \in since : e.id # recId}
           \cup ({q2[k] : k \in 1..Len(q2)} \ {q[k] : k \in 1..Len(q)})

\* Mutant of IsFull: the queue is sent one entry too late.
IsFullLate(q) == Len(q) > BatchCapacity

\* if (updateBatch.size === 10), line 293.
IsFull(q) == Len(q) = BatchCapacity

\* Mutant of HasMoreAfter: only an empty page ends the loop.
HasMoreAfterEmptyOnly(hm, n) == IF n = 0 THEN FALSE ELSE hm

\* if (records.length < limit) hasMore = false, lines 120-123.
HasMoreAfter(hm, n) == IF n < limit THEN FALSE ELSE hm

\* Mutant of ClearAfterUpdate: a failed bulk update keeps its entries queued.
ClearOnSuccessOnly(q, ok) == IF ok THEN <<>> ELSE q

\* updateBatch.clear() after a bulk update, whatever its outcome.
ClearAfterUpdate(q, ok) == <<>>

\* Mutant of FlagAfter: a failed call leaves the flag as it was.
FlagAfterLost(flag, ok) == flag

\* airtableErrorOccurred after a call that succeeded (ok) or threw.
FlagAfter(flag, ok) == flag \/ ~ok

\* process.exit(airtableErrorOccurred ? 1 : 0)
ExitStatusOf(flag) == IF flag THEN 1 ELSE 0

\* ------------------------------------------------------------------ Init
Init ==
    /\ variant \in {"batched", "perrow"}
    /\ fn = "sync"
    /\ arg = <<>>
    /\ result = <<>>
    /\ airtable \in AirtableTables
    /\ nRows \in 0..MaxRows
    /\ pc = "connect"
    /\ ret = "none"
    /\ clientOpen = FALSE
    /\ exitCode = 0
    /\ offset = 0
    /\ hasMore = TRUE
    /\ pageLen = 0
    /\ i = 1
    /\ record = NoRecord
    /\ emailHeartbeatMap = EmptyMap
    /\ userLookupBatch = <<>>
    /\ airtableRecordMap = EmptyMap
    /\ j = 1
    /\ updateBatch = <<>>
    /\ airtableErrorOccurred = FALSE
    /\ fetches = 0
    /\ offered = <<>>
    /\ lookups = <<>>
    /\ writes = <<>>
    /\ sinceFlush = {}

\* ------------------------------------------------- part_001 (batched)
\* await client.connect(): succeeds, or throws into catch/finally.
Connect ==
    /\ variant = "batched"
    /\ pc = "connect"
    /\ \E ok \in BOOLEAN :
         /\ clientOpen' = ok
         /\ pc' = IF ok THEN "while" ELSE "catch"
    /\ UNCHANGED <<progVars, histVars, ret, exitCode, offset, hasMore, pageLen,
                   i, record, emailHeartbeatMap, userLookupBatch,
                   airtableRecordMap, j, updateBatch, airtableErrorOccurred>>

\* while (hasMore) { res = await client.query(...); records = res.rows;
\*   if (records.length < limit) hasMore = false; if (records.length > 0) ... }
\* and, once hasMore is false, the test of line 165.
Query ==
    /\ variant = "batched"
    /\ pc = "while"
    /\ IF hasMore
       THEN /\ fetches' = fetches + 1
            /\ \E ok \in BOOLEAN :
                 IF ok
                 THEN LET n == PageLength(nRows, offset) IN
                      /\ pageLen' = n
                      /\ hasMore' = HasMoreAfter(hasMore, n)
                      /\ i' = 1
                      /\ pc' = IF n > 0 THEN "forRecord" ELSE "while"
                 ELSE /\ pc' = "catch"
                      /\ UNCHANGED <<pageLen, hasMore, i>>
       ELSE /\ pc' = IF HasPending(updateBatch) THEN "finalFlush" ELSE "exitStatus"
            /\ UNCHANGED <<fetches, pageLen, hasMore, i>>
    /\ UNCHANGED <<progVars, offered, lookups, writes, sinceFlush, ret,
                   clientOpen, exitCode, offset, record, emailHeartbeatMap,
                   userLookupBatch, airtableRecordMap, j, updateBatch,
                   airtableErrorOccurred>>

\* for (const record of records) { offer to emailHeartbeatMap; push to
\*   userLookupBatch; if (userLookupBatch.length === 10) await lookup... }
\* and, after the last record, lines 150-160.
OfferRecord ==
    /\ variant = "batched"
    /\ pc = "forRecord"
    /\ IF i <= pageLen
       THEN \E row \in RowsAt(offset + i) :
              /\ emailHeartbeatMap' = Offer(emailHeartbeatMap, row)
              /\ userLookupBatch' =
                    Append(userLookupBatch,
                           [userId |-> row.id, userEmail |-> row.email])
              /\ offered' = Append(offered, row)
              /\ i' = i + 1
              /\ IF Len(userLookupBatch') = LookupBatchSize
                 THEN pc' = "lookup" /\ ret' = "forRecord"
                 ELSE pc' = "forRecord" /\ ret' = ret
              /\ UNCHANGED offset
       ELSE /\ IF HasRemaining(userLookupBatch)
               THEN pc' = "lookup" /\ ret' = "pageEnd" /\ UNCHANGED offset
               ELSE /\ pc' = "while"
                    /\ ret' = ret
                    /\ offset' = OffsetAfter(offset, pageLen)
            /\ UNCHANGED <<emailHeartbeatMap, userLookupBatch, offered, i>>
    /\ UNCHANGED <<progVars, fetches, lookups, writes, sinceFlush, clientOpen, exitCode,
                   hasMore, pageLen, record, airtableRecordMap, j, updateBatch,
                   airtableErrorOccurred>>

\* lines 153-160 after the call of line 152 returned.
PageEnd ==
    /\ variant = "batched"
    /\ pc = "pageEnd"
    /\ offset' = OffsetAfter(offset, pageLen)
    /\ pc' = "while"
    /\ UNCHANGED <<progVars, histVars, ret, clientOpen, exitCode, hasMore,
                   pageLen, i, record, emailHeartbeatMap, userLookupBatch,
                   airtableRecordMap, j, updateBatch, airtableErrorOccurred>>

\* Mutant of ReturnFromLookup: the caller does not reset userLookupBatch.
ReturnKeepingBatch ==
    /\ pc' = ret
    /\ userLookupBatch' = userLookupBatch
    /\ airtableRecordMap' = EmptyMap
    /\ j' = 1

\* The return of lookupAndUpdateUsers to its caller, which then resets
\* userLookupBatch (lines 146 and 153).
ReturnFromLookup ==
    /\ pc' = ret
    /\ userLookupBatch' = <<>>
    /\ airtableRecordMap' = EmptyMap
    /\ j' = 1

\* lookupAndUpdateUsers, lines 197-225: the lookup call and the record map;
\* a throw goes to the catch of line 305.
Lookup ==
    /\ variant = "batched"
    /\ pc = "lookup"
    /\ \E ok \in BOOLEAN :
         /\ lookups' = Append(lookups,
                [users |-> [u \in 1..Len(userLookupBatch) |->
                               userLookupBatch[u].userId],
                 by |-> "batch", ok |-> ok])
         /\ airtableErrorOccurred' = FlagAfter(airtableErrorOccurred, ok)
         /\ IF ok
            THEN /\ airtableRecordMap' =
                       BuildRecordMap(SelectBatch(airtable, userLookupBatch))
                 /\ j' = 1
                 /\ pc' = "prepare"
                 /\ UNCHANGED userLookupBatch
            ELSE ReturnFromLookup
    /\ UNCHANGED <<progVars, fetches, offered, writes, sinceFlush, ret, clientOpen, exitCode,
                   offset, hasMore, pageLen, i, record, emailHeartbeatMap,
                   updateBatch>>

\* for (const user of userBatch) { ... }, lines 228-293, one user; after the
\* last user the function returns.
PrepareUpdate ==
    /\ variant = "batched"
    /\ pc = "prepare"
    /\ IF j <= Len(userLookupBatch)
       THEN LET user == userLookupBatch[j]
                emailEntry == emailHeartbeatMap[user.userEmail]
                recId == FindRecordId(airtableRecordMap, user.userId,
                                      user.userEmail)
            IN  /\ j' = j + 1
                /\ IF NotLatest(user.userId, emailEntry) \/ recId = ""
                   THEN /\ pc' = "prepare"
                        /\ UNCHANGED <<updateBatch, sinceFlush>>
                   ELSE /\ updateBatch' =
                              Enqueue(updateBatch, recId, emailEntry.record)
                        /\ sinceFlush' =
                              Noted(sinceFlush, updateBatch, updateBatch', recId)
                        /\ pc' = IF IsFull(updateBatch')
                                 THEN "flushFull" ELSE "prepare"
                /\ UNCHANGED <<userLookupBatch, airtableRecordMap>>
       ELSE /\ ReturnFromLookup
            /\ UNCHANGED <<updateBatch, sinceFlush>>
    /\ UNCHANGED <<progVars, fetches, offered, lookups, writes, ret, clientOpen,
                   exitCode, offset, hasMore, pageLen, i, record,
                   emailHeartbeatMap, airtableErrorOccurred>>

\* lines 293-303: the bulk update of a full queue.
FlushFull ==
    /\ variant = "batched"
    /\ pc = "flushFull"
    /\ \E ok \in BOOLEAN :
         /\ writes' = Append(writes,
                [entries |-> updateBatch, ok |-> ok, final |-> FALSE,
                 since |-> sinceFlush])
         /\ sinceFlush' = {}
         /\ airtableErrorOccurred' = FlagAfter(airtableErrorOccurred, ok)
         /\ updateBatch' = ClearAfterUpdate(updateBatch, ok)
    /\ pc' = "prepare"
    /\ UNCHANGED <<progVars, fetches, offered, lookups, ret, clientOpen,
                   exitCode, offset, hasMore, pageLen, i, record,
                   emailHeartbeatMap, userLookupBatch, airtableRecordMap, j>>

\* lines 165-175: the bulk update of what is left at the end of the stream.
FinalFlush ==
    /\ variant = "batched"
    /\ pc = "finalFlush"
    /\ \E ok \in BOOLEAN :
         /\ writes' = Append(writes,
                [entries |-> updateBatch, ok |-> ok, final |-> TRUE,
                 since |-> sinceFlush])
         /\ sinceFlush' = {}
         /\ airtableErrorOccurred' = FlagAfter(airtableErrorOccurred, ok)
         /\ updateBatch' = ClearAfterUpdate(updateBatch, ok)
    /\ pc' = "exitStatus"
    /\ UNCHANGED <<progVars, fetches, offered, lookups, ret, clientOpen,
                   exitCode, offset, hasMore, pageLen, i, record,
                   emailHeartbeatMap, userLookupBatch, airtableRecordMap, j>>

\* lines 178-184: process.exit ends the process at once; the finally block
\* of line 188 does not run.
ExitStatus ==
    /\ variant = "batched"
    /\ pc = "exitStatus"
    /\ exitCode' = ExitStatusOf(airtableErrorOccurred)
    /\ pc' = "exited"
    /\ UNCHANGED <<progVars, histVars, ret, clientOpen, offset, hasMore,
                   pageLen, i, record, emailHeartbeatMap, userLookupBatch,
                   airtableRecordMap, j, updateBatch, airtableErrorOccurred>>

\* lines 186-192: catch logs, finally awaits client.end(); processRecords
\* returns and the process ends with its default status.
\* Mutant of CatchFinally: the error is logged and the client is left open.
CatchWithoutEnd ==
    /\ variant = "batched"
    /\ pc = "catch"
    /\ pc' = "done"
    /\ UNCHANGED <<progVars, histVars, ret, clientOpen, exitCode, offset,
                   hasMore, pageLen, i, record, emailHeartbeatMap,
                   userLookupBatch, airtableRecordMap, j, updateBatch,
                   airtableErrorOccurred>>

CatchFinally ==
    /\ variant = "batched"
    /\ pc = "catch"
    /\ clientOpen' = FALSE
    /\ pc' = "done"
    /\ UNCHANGED <<progVars, histVars, ret, exitCode, offset, hasMore, pageLen,
                   i, record, emailHeartbeatMap, userLookupBatch,
                   airtableRecordMap, j, updateBatch, airtableErrorOccurred>>

\* ------------------------------------------------- index.js (per row)
\* select({filterByFormula: "{slack_id} = '...'", maxRecords: 1}).firstPage()
SelectBySlackId(table, userId) == { r \in table : r.slack_id = userId }

\* select({filterByFormula: "{email} = '...'", maxRecords: 1}).firstPage()
SelectByEmail(table, userEmail) == { r \in table : r.email = userEmail }

\* updateBatch.push({id, fields}), line 163.
Push(q, recId, row) == Append(q, MakeUpdate(recId, row))

\* updateBatch = [] after the bulk update of line 172, whatever its outcome.
IdxClearAfterUpdate(q, ok) == <<>>

\* if (records.length < limit) hasMore = false, lines 105-108.
IdxHasMoreAfter(hm, n) == IF n < limit THEN FALSE ELSE hm

\* if (records.length === limit) offset += limit, lines 189-192.
IdxOffsetAfter(off, n) == IF n = limit THEN off + limit ELSE off

\* if (updateBatch.length === 10), line 169.
IdxIsFull(q) == Len(q) = BatchCapacity

\* What the per-row catch of line 183 leaves in airtableErrorOccurred.
IdxFlagAfterLookup(flag, ok) == flag

\* await client.connect(), line 46.
IdxConnect ==
    /\ variant = "perrow"
    /\ pc = "connect"
    /\ \E ok \in BOOLEAN :
         /\ clientOpen' = ok
         /\ pc' = IF ok THEN "while" ELSE "catch"
    /\ UNCHANGED <<progVars, histVars, ret, exitCode, offset, hasMore, pageLen,
                   i, record, emailHeartbeatMap, userLookupBatch,
                   airtableRecordMap, j, updateBatch, airtableErrorOccurred>>

\* lines 53-110: one turn of while (hasMore), and the test of line 197.
IdxQuery ==
    /\ variant = "perrow"
    /\ pc = "while"
    /\ IF hasMore
       THEN /\ fetches' = fetches + 1
            /\ \E ok \in BOOLEAN :
                 IF ok
                 THEN LET n == PageLength(nRows, offset) IN
                      /\ pageLen' = n
                      /\ hasMore' = IdxHasMoreAfter(hasMore, n)
                      /\ i' = 1
                      /\ pc' = IF n > 0 THEN "forRecord" ELSE "while"
                 ELSE /\ pc' = "catch"
                      /\ UNCHANGED <<pageLen, hasMore, i>>
       ELSE /\ pc' = IF Len(updateBatch) > 0 THEN "finalFlush" ELSE "exitStatus"
            /\ UNCHANGED <<fetches, pageLen, hasMore, i>>
    /\ UNCHANGED <<progVars, offered, lookups, writes, sinceFlush, ret, clientOpen, exitCode,
                   offset, record, emailHeartbeatMap, userLookupBatch,
                   airtableRecordMap, j, updateBatch, airtableErrorOccurred>>

\* lines 140-179 once a record was found: build the update, push it, and go
\* to the bulk update when the queue is full.
IdxEnqueue(recId, row) ==
    /\ updateBatch' = Push(updateBatch, recId, row)
    /\ sinceFlush' = sinceFlush \cup {MakeUpdate(recId, row)}
    /\ pc' = IF IdxIsFull(updateBatch') THEN "flushFull" ELSE "forRecord"

\* lines 111-125 for one record: the lookup by slack_id.  After the last
\* record, lines 188-192.
IdxLookupSlackId ==
    /\ variant = "perrow"
    /\ pc = "forRecord"
    /\ IF i <= pageLen
       THEN \E row \in RowsAt(offset + i), ok \in BOOLEAN :
              /\ i' = i + 1
              /\ lookups' = Append(lookups,
                    [users |-> <<row.id>>, by |-> "slack_id", ok |-> ok])
              /\ airtableErrorOccurred' =
                    IdxFlagAfterLookup(airtableErrorOccurred, ok)
              /\ IF ~ok
                 THEN pc' = "forRecord" /\ UNCHANGED <<updateBatch, sinceFlush, record>>
                 ELSE LET found == SelectBySlackId(airtable, row.id) IN
                      IF found = {}
                      THEN /\ pc' = "lookupEmail"
                           /\ record' = row
                           /\ UNCHANGED <<updateBatch, sinceFlush>>
                      ELSE /\ IdxEnqueue((CHOOSE r \in found : TRUE).id, row)
                           /\ UNCHANGED record
              /\ UNCHANGED offset
       ELSE /\ offset' = IdxOffsetAfter(offset, pageLen)
            /\ pc' = "while"
            /\ UNCHANGED <<record, i, lookups, updateBatch, sinceFlush,
                           airtableErrorOccurred>>
    /\ UNCHANGED <<progVars, fetches, offered, writes, ret, clientOpen, exitCode,
                   hasMore, pageLen, emailHeartbeatMap, userLookupBatch,
                   airtableRecordMap, j>>

\* lines 125-138: the fallback lookup by email.
IdxLookupEmail ==
    /\ variant = "perrow"
    /\ pc = "lookupEmail"
    /\ \E ok \in BOOLEAN :
         /\ lookups' = Append(lookups,
               [users |-> <<record.id>>, by |-> "email", ok |-> ok])
         /\ airtableErrorOccurred' =
               IdxFlagAfterLookup(airtableErrorOccurred, ok)
         /\ IF ~ok
            THEN pc' = "forRecord" /\ UNCHANGED <<updateBatch, sinceFlush>>
            ELSE LET found == SelectByEmail(airtable, record.email) IN
                 IF found = {}
                 THEN pc' = "forRecord" /\ UNCHANGED <<updateBatch, sinceFlush>>
                 ELSE IdxEnqueue((CHOOSE r \in found : TRUE).id, record)
    /\ record' = NoRecord
    /\ UNCHANGED <<progVars, fetches, offered, writes, ret, clientOpen, exitCode,
                   offset, hasMore, pageLen, i, emailHeartbeatMap,
                   userLookupBatch, airtableRecordMap, j>>

\* lines 169-179: the bulk update of a full queue.
IdxFlushFull ==
    /\ variant = "perrow"
    /\ pc = "flushFull"
    /\ \E ok \in BOOLEAN :
         /\ writes' = Append(writes,
                [entries |-> updateBatch, ok |-> ok, final |-> FALSE,
                 since |-> sinceFlush])
         /\ sinceFlush' = {}
         /\ airtableErrorOccurred' = FlagAfter(airtableErrorOccurred, ok)
         /\ updateBatch' = IdxClearAfterUpdate(updateBatch, ok)
    /\ pc' = "forRecord"
    /\ UNCHANGED <<progVars, fetches, offered, lookups, ret, clientOpen,
                   exitCode, offset, hasMore, pageLen, i, record,
                   emailHeartbeatMap, userLookupBatch, airtableRecordMap, j>>

\* lines 197-206: the final bulk update; updateBatch is not reset.
IdxFinalFlush ==
    /\ variant = "perrow"
    /\ pc = "finalFlush"
    /\ \E ok \in BOOLEAN :
         /\ writes' = Append(writes,
                [entries |-> updateBatch, ok |-> ok, final |-> TRUE,
                 since |-> sinceFlush])
         /\ sinceFlush' = {}
         /\ airtableErrorOccurred' = FlagAfter(airtableErrorOccurred, ok)
    /\ pc' = "exitStatus"
    /\ UNCHANGED <<progVars, fetches, offered, lookups, ret, clientOpen,
                   exitCode, offset, hasMore, pageLen, i, record,
                   emailHeartbeatMap, userLookupBatch, airtableRecordMap, j,
                   updateBatch>>

\* lines 208-215: process.exit; the finally block of line 219 does not run.
IdxExitStatus ==
    /\ variant = "perrow"
    /\ pc = "exitStatus"
    /\ exitCode' = ExitStatusOf(airtableErrorOccurred)
    /\ pc' = "exited"
    /\ UNCHANGED <<progVars, histVars, ret, clientOpen, offset, hasMore,
                   pageLen, i, record, emailHeartbeatMap, userLookupBatch,
                   airtableRecordMap, j, updateBatch, airtableErrorOccurred>>

\* lines 217-223: catch, finally, client.end().
IdxCatchFinally ==
    /\ variant = "perrow"
    /\ pc = "catch"
    /\ clientOpen' = FALSE
    /\ pc' = "done"
    /\ UNCHANGED <<progVars, histVars, ret, exitCode, offset, hasMore, pageLen,
                   i, record, emailHeartbeatMap, userLookupBatch,
                   airtableRecordMap, j, updateBatch, airtableErrorOccurred>>

Next ==
    \/ Connect
    \/ Query
    \/ OfferRecord
    \/ PageEnd
    \/ Lookup
    \/ PrepareUpdate
    \/ FlushFull
    \/ FinalFlush
    \/ ExitStatus
    \/ CatchFinally
    \/ IdxConnect
    \/ IdxQuery
    \/ IdxLookupSlackId
    \/ IdxLookupEmail
    \/ IdxFlushFull
    \/ IdxFinalFlush
    \/ IdxExitStatus
    \/ IdxCatchFinally

Spec == Init /\ [][Next]_vars

\* The single thread of control always takes its next step: every awaited
\* call resolves or throws.
FairSpec == Spec /\ WF_vars(Next)

\* ------------------------------------------- the functions on their own
\* The functions that build an update are applied on their own to one
\* argument: Init draws the argument, one action applies the function.
\*
\* A text is a sequence of one-character strings.  null is the empty
\* sequence where the other values are never empty (a number n is <<n>>, a
\* JSON text has at least its brackets).
Null == <<>>

\* ------------------------------------------------------- numeric fields
\* Largest COUNT(DISTINCT ...) and largest hours (in hundredths) drawn.
MaxCount == 12
MaxHours == 1250

CountFields == {"known_machine_count", "30_day_active_machine_count",
                "known_installation_count",
                "30_day_active_installation_count"}
HourFields == {"total_hours_logged", "30_day_hours_logged"}

\* The aggregates of one user: counts, and hours in hundredths, with
\* NoHours for a user without a row in time_logged (COALESCE(..., 0)).
NoHours == [logged |-> FALSE, hundredths |-> 0]
CountValues == {0, 1, MaxCount}
HourValues == {NoHours} \cup
              {[logged |-> TRUE, hundredths |-> h] : h \in {0, 5, MaxHours}}
Aggregates ==
    [CountFields -> CountValues] \X [HourFields -> HourValues]

Digits == <<"0", "1", "2", "3", "4", "5", "6", "7", "8", "9">>

RECURSIVE NatText(_)
NatText(n) ==
    IF n < 10 THEN <<Digits[n + 1]>>
    ELSE Append(NatText(n \div 10), Digits[(n % 10) + 1])

\* What the driver hands over for a bigint (COUNT): its decimal text.
PgBigint(c) == NatText(c)

\* What the driver hands over for ROUND(x, 2), a numeric of scale 2, and for
\* the integer 0 of COALESCE.
PgNumeric(v) ==
    IF ~v.logged THEN <<"0">>
    ELSE NatText(v.hundredths \div 100)
         \o <<".", Digits[((v.hundredths \div 10) % 10) + 1],
                   Digits[(v.hundredths % 10) + 1]>>

\* The row of the page holding these aggregates.
RowOfAggregates(a) ==
    [f \in CountFields \cup HourFields |->
        IF f \in CountFields THEN PgBigint(a[1][f]) ELSE PgNumeric(a[2][f])]

DigitValue(c) == CHOOSE d \in 0..9 : Digits[d + 1] = c

RECURSIVE ParseDigits(_)
ParseDigits(s) ==
    IF s = <<>> THEN 0
    ELSE 10 * ParseDigits(SubSeq(s, 1, Len(s) - 1)) + DigitValue(s[Len(s)])

\* Number(text) for a decimal text, in hundredths.
Number(s) ==
    LET dots == {k \in 1..Len(s) : s[k] = "."} IN
    IF dots = {} THEN 100 * ParseDigits(s)
    ELSE LET d == CHOOSE k \in dots : TRUE
             frac == SubSeq(s, d + 1, Len(s))
         IN  100 * ParseDigits(SubSeq(s, 1, d - 1))
             + (IF Len(frac) = 1 THEN 10 * ParseDigits(frac)
                ELSE ParseDigits(SubSeq(frac, 1, 2)))

\* Mutant of ZeroToNull: the number is stored as it is.
ZeroKept(x) == <<Number(x)>>

\* Number(x) === 0 ? null : Number(x)
ZeroToNull(x) == IF Number(x) = 0 THEN Null ELSE <<Number(x)>>

IdxZeroToNull(x) == IF Number(x) = 0 THEN Null ELSE <<Number(x)>>

\* The field of the row each numeric field of updateData is built from.
SourceField ==
    [g \in {"waka_known_machine_count", "waka_30_day_active_machine_count",
            "waka_known_installation_count",
            "waka_30_day_active_installation_count",
            "waka_total_hours_logged", "waka_30_day_hours_logged"} |->
        CASE g = "waka_known_machine_count" -> "known_machine_count"
          [] g = "waka_30_day_active_machine_count" ->
                "30_day_active_machine_count"
          [] g = "waka_known_installation_count" -> "known_installation_count"
          [] g = "waka_30_day_active_installation_count" ->
                "30_day_active_installation_count"
          [] g = "waka_total_hours_logged" -> "total_hours_logged"
          [] g = "waka_30_day_hours_logged" -> "30_day_hours_logged"]

\* const updateData = { ... }: its six numeric fields.
UpdateData(emailRecord) ==
    [g \in DOMAIN SourceField |-> ZeroToNull(emailRecord[SourceField[g]])]

IdxUpdateData(rec) ==
    [g \in DOMAIN SourceField |-> IdxZeroToNull(rec[SourceField[g]])]

\* ------------------------------------------------- sanitizeAndSerialize
\* Longest entry and longest array drawn.
MaxItemLen == 2
MaxItems == 2

ItemChars == {" ", "|", "a"}
Whitespace == {" "}

RECURSIVE TextsUpTo(_, _)
TextsUpTo(chars, n) ==
    IF n = 0 THEN {<<>>}
    ELSE LET shorter == TextsUpTo(chars, n - 1) IN
         shorter \cup {Append(t, c) : t \in shorter, c \in chars}

RECURSIVE ListsUpTo(_, _)
ListsUpTo(S, n) ==
    IF n = 0 THEN {<<>>}
    ELSE LET shorter == ListsUpTo(S, n - 1) IN
         shorter \cup {Append(l, x) : l \in shorter, x \in S}

\* An entry of a JSON_AGG array: null or a text.
NullItem == [isNull |-> TRUE, text |-> <<>>]
TextItem(t) == [isNull |-> FALSE, text |-> t]
Items == {NullItem} \cup {TextItem(t) : t \in TextsUpTo(ItemChars, MaxItemLen)}

\* The value of an array column: null (no row aggregated) or an array.
NotArray == [isArray |-> FALSE, items |-> <<>>]
ArrayValues ==
    {NotArray} \cup {[isArray |-> TRUE, items |-> l] : l \in ListsUpTo(Items, MaxItems)}

RECURSIVE TrimStart(_)
TrimStart(s) ==
    IF s # <<>> /\ s[1] \in Whitespace THEN TrimStart(Tail(s)) ELSE s

RECURSIVE TrimEnd(_)
TrimEnd(s) ==
    IF s # <<>> /\ s[Len(s)] \in Whitespace
    THEN TrimEnd(SubSeq(s, 1, Len(s) - 1)) ELSE s

\* item.trim()
Trim(s) == TrimEnd(TrimStart(s))

IsNotPipe(c) == c # "|"

\* item.replace(/\|/g, '')
RemovePipes(s) == SelectSeq(s, IsNotPipe)

\* Mutant of Keep: only null and the empty text are dropped.
KeepNonEmpty(item) == ~item.isNull /\ item.text # <<>>

\* item && item.trim() !== '' && item.replace(/\|/g, '').trim() !== ''
Keep(item) ==
    /\ ~item.isNull /\ item.text # <<>>
    /\ Trim(item.text) # <<>>
    /\ Trim(RemovePipes(item.text)) # <<>>

\* array.filter(item => ...)
Filter(items) == SelectSeq(items, Keep)

RECURSIVE JsonLines(_)
JsonLines(texts) ==
    IF texts = <<>> THEN <<>>
    ELSE <<"\n", " ", " ", "\"">> \o texts[1] \o <<"\"">>
         \o (IF Len(texts) > 1 THEN <<",">> ELSE <<>>)
         \o JsonLines(Tail(texts))

\* JSON.stringify(filtered, null, 2) for an array of texts that need no
\* escape.
JsonStringify(items) ==
    IF items = <<>> THEN <<"[", "]">>
    ELSE <<"[">>
         \o JsonLines([k \in 1..Len(items) |-> items[k].text])
         \o <<"\n", "]">>

sanitizeAndSerialize(array) ==
    IF array.isArray
    THEN LET filtered == Filter(array.items) IN
         IF Len(filtered) > 0 THEN JsonStringify(filtered) ELSE Null
    ELSE Null

IdxKeep(item) ==
    /\ ~item.isNull /\ item.text # <<>>
    /\ Trim(item.text) # <<>>
    /\ Trim(RemovePipes(item.text)) # <<>>

IdxSanitizeAndSerialize(array) ==
    IF array.isArray
    THEN LET filtered == SelectSeq(array.items, IdxKeep) IN
         IF Len(filtered) > 0 THEN JsonStringify(filtered) ELSE Null
    ELSE Null

\* ------------------------------------------------------ filter formulas
\* Longest key (entity id or email) and longest list of keys drawn.
MaxKeyLen == 2
MaxValues == 2

KeyChars == {"'", "a", ","}
Keys == TextsUpTo(KeyChars, MaxKeyLen)
KeyLists == ListsUpTo(Keys, MaxValues) \ {<<>>}
FieldNames == {"slack_id", "email"}

\* Mutant of EscapeQuotes: the value is inserted as it is.
EscapeNothing(value) == value

RECURSIVE EscapeQuotes(_)
\* value.replace(/'/g, "''")
EscapeQuotes(value) ==
    IF value = <<>> THEN <<>>
    ELSE (IF value[1] = "'" THEN <<"'", "'">> ELSE <<value[1]>>)
         \o EscapeQuotes(Tail(value))

RECURSIVE JoinConditions(_, _)
\* conditions.join(', ') of the conditions {fieldName} = 'escaped'; the
\* field name is one element of the text.
JoinConditions(fieldName, values) ==
    IF values = <<>> THEN <<>>
    ELSE <<"{", fieldName, "}", " ", "=", " ", "'">>
         \o EscapeQuotes(values[1]) \o <<"'">>
         \o (IF Len(values) > 1 THEN <<",", " ">> ELSE <<>>)
         \o JoinConditions(fieldName, Tail(values))

buildOrFormula(fieldName, values) ==
    <<"O", "R", "(">> \o JoinConditions(fieldName, values) \o <<")">>

RECURSIVE IdxEscapeQuotes(_)
\* userId.replace(/'/g, "''"), userEmail.replace(/'/g, "''")
IdxEscapeQuotes(value) ==
    IF value = <<>> THEN <<>>
    ELSE (IF value[1] = "'" THEN <<"'", "'">> ELSE <<value[1]>>)
         \o IdxEscapeQuotes(Tail(value))

\* `{slack_id} = '...'` and `{email} = '...'`
IdxFilterByFormula(fieldName, value) ==
    <<"{", fieldName, "}", " ", "=", " ", "'">>
    \o IdxEscapeQuotes(value) \o <<"'">>

\* ------------------------------------------- applying a function once
\* The variables of the sync, which a function applied on its own leaves
\* alone.
syncVars == <<airtable, nRows, ret, clientOpen, exitCode, offset, hasMore,
              pageLen, i, record, emailHeartbeatMap, userLookupBatch,
              airtableRecordMap, j, updateBatch, airtableErrorOccurred,
              histVars>>

FnInit ==
    /\ variant \in {"batched", "perrow"}
    /\ \/ /\ fn = "updateData"
          /\ arg \in {[aggregates |-> a, row |-> RowOfAggregates(a)] :
                        a \in Aggregates}
       \/ /\ fn = "sanitizeAndSerialize"
          /\ arg \in ArrayValues
       \/ /\ fn = "filterByFormula"
          /\ arg \in {[fieldName |-> f, values |-> l] :
                        f \in FieldNames, l \in KeyLists}
          /\ variant = "perrow" => Len(arg.values) = 1
    /\ result = Null
    /\ pc = "call"
    /\ airtable = {}
    /\ nRows = 0
    /\ ret = "none"
    /\ clientOpen = TRUE
    /\ exitCode = 0
    /\ offset = 0
    /\ hasMore = TRUE
    /\ pageLen = 0
    /\ i = 1
    /\ record = NoRecord
    /\ emailHeartbeatMap = EmptyMap
    /\ userLookupBatch = <<>>
    /\ airtableRecordMap = EmptyMap
    /\ j = 1
    /\ updateBatch = <<>>
    /\ airtableErrorOccurred = FALSE
    /\ fetches = 0
    /\ offered = <<>>
    /\ lookups = <<>>
    /\ writes = <<>>
    /\ sinceFlush = {}

CallUpdateData ==
    /\ variant = "batched" /\ fn = "updateData" /\ pc = "call"
    /\ result' = UpdateData(arg.row)
    /\ pc' = "returned"
    /\ UNCHANGED <<variant, fn, arg, syncVars>>

IdxCallUpdateData ==
    /\ variant = "perrow" /\ fn = "updateData" /\ pc = "call"
    /\ result' = IdxUpdateData(arg.row)
    /\ pc' = "returned"
    /\ UNCHANGED <<variant, fn, arg, syncVars>>

CallSanitizeAndSerialize ==
    /\ variant = "batched" /\ fn = "sanitizeAndSerialize" /\ pc = "call"
    /\ result' = sanitizeAndSerialize(arg)
    /\ pc' = "returned"
    /\ UNCHANGED <<variant, fn, arg, syncVars>>

IdxCallSanitizeAndSerialize ==
    /\ variant = "perrow" /\ fn = "sanitizeAndSerialize" /\ pc = "call"
    /\ result' = IdxSanitizeAndSerialize(arg)
    /\ pc' = "returned"
    /\ UNCHANGED <<variant, fn, arg, syncVars>>

CallBuildOrFormula ==
    /\ variant = "batched" /\ fn = "filterByFormula" /\ pc = "call"
    /\ result' = buildOrFormula(arg.fieldName, arg.values)
    /\ pc' = "returned"
    /\ UNCHANGED <<variant, fn, arg, syncVars>>

IdxCallFilterByFormula ==
    /\ variant = "perrow" /\ fn = "filterByFormula" /\ pc = "call"
    /\ result' = IdxFilterByFormula(arg.fieldName, arg.values[1])
    /\ pc' = "returned"
    /\ UNCHANGED <<variant, fn, arg, syncVars>>

FnNext ==
    \/ CallUpdateData
    \/ IdxCallUpdateData
    \/ CallSanitizeAndSerialize
    \/ IdxCallSanitizeAndSerialize
    \/ CallBuildOrFormula
    \/ IdxCallFilterByFormula

FnSpec == FnInit /\ [][FnNext]_vars

\* --------------------------------------------- part_000 (query only)
\* The script that only pages through the users table and logs each row.
\* offered is what it logged.
QryInit ==
    /\ variant = "queryonly"
    /\ fn = "sync"
    /\ arg = <<>>
    /\ result = <<>>
    /\ airtable = {}
    /\ nRows \in 0..MaxRows
    /\ pc = "connect"
    /\ ret = "none"
    /\ clientOpen = FALSE
    /\ exitCode = 0
    /\ offset = 0
    /\ hasMore = TRUE
    /\ pageLen = 0
    /\ i = 1
    /\ record = NoRecord
    /\ emailHeartbeatMap = EmptyMap
    /\ userLookupBatch = <<>>
    /\ airtableRecordMap = EmptyMap
    /\ j = 1
    /\ updateBatch = <<>>
    /\ airtableErrorOccurred = FALSE
    /\ fetches = 0
    /\ offered = <<>>
    /\ lookups = <<>>
    /\ writes = <<>>
    /\ sinceFlush = {}

\* The variables part_000 does not have.
qryUnused == <<progVars, ret, exitCode, record, emailHeartbeatMap,
               userLookupBatch, airtableRecordMap, j, updateBatch,
               airtableErrorOccurred, lookups, writes, sinceFlush>>

\* Mutant of QryHasMoreAfter: a page shorter than limit ends the loop.
QryHasMoreUntilShort(more, n) == IF n < limit THEN FALSE ELSE more

\* if (records.length === 0) hasMore = false, lines 50-51.
QryHasMoreAfter(more, n) == IF n = 0 THEN FALSE ELSE more

\* await client.connect(), line 15.
QryConnect ==
    /\ variant = "queryonly"
    /\ pc = "connect"
    /\ \E ok \in BOOLEAN :
         IF ok THEN clientOpen' = TRUE /\ pc' = "while"
         ELSE clientOpen' = FALSE /\ pc' = "catch"
    /\ UNCHANGED <<qryUnused, offset, hasMore, pageLen, i, fetches, offered>>

\* while (hasMore) { const res = await client.query(...); ... }, lines
\* 21-52, up to the for-loop.
QryQuery ==
    /\ variant = "queryonly"
    /\ pc = "while"
    /\ IF hasMore
       THEN /\ fetches' = fetches + 1
            /\ \E ok \in BOOLEAN :
                 IF ok
                 THEN LET n == PageLength(nRows, offset) IN
                      /\ pageLen' = n
                      /\ hasMore' = QryHasMoreAfter(hasMore, n)
                      /\ i' = 1
                      /\ pc' = IF n > 0 THEN "forRecord" ELSE "while"
                 ELSE /\ pc' = "catch"
                      /\ UNCHANGED <<pageLen, hasMore, i>>
       ELSE /\ pc' = "finally"
            /\ UNCHANGED <<fetches, pageLen, hasMore, i>>
    /\ UNCHANGED <<qryUnused, clientOpen, offset, offered>>

\* for (const record of records) console.log(record); offset += limit,
\* lines 53-59.
QryLogRecord ==
    /\ variant = "queryonly"
    /\ pc = "forRecord"
    /\ IF i <= pageLen
       THEN \E row \in RowsAt(offset + i) :
              /\ offered' = Append(offered, row)
              /\ i' = i + 1
              /\ UNCHANGED <<offset, pc>>
       ELSE /\ offset' = offset + limit
            /\ pc' = "while"
            /\ UNCHANGED <<offered, i>>
    /\ UNCHANGED <<qryUnused, clientOpen, hasMore, pageLen, fetches>>

\* catch (err) { console.error(...) } finally { await client.end() }, lines
\* 63-67.
QryCatchFinally ==
    /\ variant = "queryonly"
    /\ pc = "catch"
    /\ clientOpen' = FALSE
    /\ pc' = "done"
    /\ UNCHANGED <<qryUnused, offset, hasMore, pageLen, i, fetches, offered>>

\* finally { await client.end() } after the loop ended, lines 65-67.
QryFinally ==
    /\ variant = "queryonly"
    /\ pc = "finally"
    /\ clientOpen' = FALSE
    /\ pc' = "done"
    /\ UNCHANGED <<qryUnused, offset, hasMore, pageLen, i, fetches, offered>>

QryNext ==
    \/ QryConnect
    \/ QryQuery
    \/ QryLogRecord
    \/ QryCatchFinally
    \/ QryFinally

QrySpec == QryInit /\ [][QryNext]_vars

\* The event loop runs every pending continuation.
QryFairSpec == QrySpec /\ WF_vars(QryNext)

\* ================================================================ claims
Range(q) == {q[k] : k \in 1..Len(q)}

FailedLookups == {k \in 1..Len(lookups) : ~lookups[k].ok}
FailedWrites == {k \in 1..Len(writes) : ~writes[k].ok}
FailedCalls == Cardinality(FailedLookups) + Cardinality(FailedWrites)

\* Every entry a bulk update carried so far.
WrittenEntries == UNION {Range(writes[k].entries) : k \in 1..Len(writes)}

\* The row of the feed with this id, among those read so far.
RowOf(id) == CHOOSE r \in Range(offered) : r.id = id

\* C1: in the batched sync, a run whose source queries all succeed (it
\* reaches process.exit) exits with status 1 when exactly one lookup or
\* bulk-write call failed, and with status 0 when none failed.
C1_DegradedExitCode ==
    (variant = "batched" /\ pc = "exited") =>
        /\ FailedCalls = 1 => exitCode = 1
        /\ FailedCalls = 0 => exitCode = 0

C1_Witness ==
    /\ variant = "batched"
    /\ pc = "exited"
    /\ FailedCalls = 1
    /\ Len(lookups) >= 2
    /\ Len(writes) >= 1
    /\ exitCode = 1

\* C2: in the batched sync, at the end of a run every entry a bulk update
\* carried was built from the row with the greatest last_heartbeat among all
\* fetched rows sharing its email; no other row produces a write.  (Stated
\* for the runs in which no call failed, where it already fails.)
C2_OneAuthoritativeRowPerEmail ==
    (variant = "batched" /\ pc = "exited" /\ FailedCalls = 0) =>
        \A e \in WrittenEntries :
            \A r \in Range(offered) :
                r.email = RowOf(e.src).email =>
                    r.last_heartbeat <= RowOf(e.src).last_heartbeat

\* C3: in both variants, no run ends the process with the source
\* connection still open.
C3_ConnectionReleased ==
    pc \in {"exited", "done"} => ~clientOpen

\* C4: in the batched sync, for every run: once a lookup or bulk-write call
\* has failed the run ends with exit status 1, and it ends with status 0
\* only if none failed.
C4_DegradedAlwaysReported ==
    (variant = "batched" /\ pc \in {"exited", "done"}) =>
        /\ (FailedCalls > 0 \/ airtableErrorOccurred) => exitCode = 1
        /\ exitCode = 0 => FailedCalls = 0

\* C5: in both variants, the queue never holds more than BatchCapacity
\* entries and is sent exactly when it reaches BatchCapacity; no bulk update
\* carries more than BatchCapacity entries; the end-of-stream update is
\* issued at most once, only for a non-empty queue, and carries exactly the
\* entries queued since the last bulk update.
C5_BatchCapacityLaw ==
    /\ Len(updateBatch) <= BatchCapacity
    /\ Len(updateBatch) = BatchCapacity <=> pc = "flushFull"
    /\ pc = "finalFlush" => Len(updateBatch) > 0
    /\ \A k \in 1..Len(writes) :
         /\ Len(writes[k].entries) \in 1..BatchCapacity
         /\ ~writes[k].final => Len(writes[k].entries) = BatchCapacity
         /\ writes[k].final =>
              /\ k = Len(writes)
              /\ pc \in {"exitStatus", "exited"}
              /\ Range(writes[k].entries) = writes[k].since
              /\ Len(writes[k].entries) = Cardinality(writes[k].since)

C5_Witness ==
    /\ pc = "exited"
    /\ Len(writes) = 2
    /\ ~writes[1].final /\ ~writes[1].ok
    /\ Len(writes[1].entries) = BatchCapacity
    /\ writes[2].final
    /\ Len(writes[2].entries) = 1

\* C6: the winner table holds, for each email offered so far, a row with the
\* greatest last_heartbeat among the rows offered with that email (and no
\* entry for an email never offered); an entry is never removed and is
\* replaced only by a row with a strictly greater last_heartbeat.
C6_TableHoldsGreatest ==
    variant = "batched" =>
        \A e \in Emails :
            LET rows == {r \in Range(offered) : r.email = e} IN
            IF rows = {} THEN e \notin DOMAIN emailHeartbeatMap
            ELSE /\ e \in DOMAIN emailHeartbeatMap
                 /\ emailHeartbeatMap[e].record \in rows
                 /\ emailHeartbeatMap[e].userId = emailHeartbeatMap[e].record.id
                 /\ emailHeartbeatMap[e].lastHeartbeat =
                        emailHeartbeatMap[e].record.last_heartbeat
                 /\ \A r \in rows :
                        r.last_heartbeat <= emailHeartbeatMap[e].lastHeartbeat

C6_ReplacedOnlyByNewer ==
    \A e \in DOMAIN emailHeartbeatMap :
        /\ e \in DOMAIN emailHeartbeatMap'
        /\ emailHeartbeatMap'[e] # emailHeartbeatMap[e] =>
              emailHeartbeatMap'[e].lastHeartbeat >
                  emailHeartbeatMap[e].lastHeartbeat

\* C6: latest-wins determinism of the winner table: the table always holds
\* a greatest row per email, and an entry, once stored, is only ever
\* replaced by a strictly newer row.
C6_LatestWins == [] C6_TableHoldsGreatest /\ [][C6_ReplacedOnlyByNewer]_vars

\* Three rows of one email over two pages; the middle one is the newest and
\* stays the winner.
C6_Witness ==
    /\ variant = "batched"
    /\ Len(offered) > limit
    /\ \E a, b, c \in 1..Len(offered) :
         /\ a < b /\ b < c /\ c > limit
         /\ offered[a].email = offered[b].email
         /\ offered[b].email = offered[c].email
         /\ offered[a].last_heartbeat < offered[b].last_heartbeat
         /\ offered[c].last_heartbeat < offered[b].last_heartbeat
         /\ emailHeartbeatMap[offered[b].email].userId = offered[b].id

\* C7: for a source of nRows rows and page size limit, both variants issue
\* exactly ceil(nRows/limit) fetches when nRows is not a multiple of limit
\* and ceil(nRows/limit)+1 when it is (one fetch for an empty source), never
\* more, and the run terminates.
Ceil(n, l) == (n + l - 1) \div l

ExpectedFetches(n) ==
    IF n % limit = 0 THEN Ceil(n, limit) + 1 ELSE Ceil(n, limit)

C7_FetchCount ==
    /\ fetches <= ExpectedFetches(nRows)
    /\ pc \in {"finalFlush", "exitStatus", "exited"} =>
          fetches = ExpectedFetches(nRows)

\* C7: pagination termination: the fetch count is the one the claim gives
\* and every run reaches its end.
C7_PaginationTermination ==
    [] C7_FetchCount /\ <>(pc \in {"exited", "done"})

C7_Witness ==
    /\ pc = "exited"
    /\ nRows = 2 * limit
    /\ fetches = 3

\* C8: in the batched sync every bulk update carries the whole queue and
\* leaves it empty, whether it succeeded or failed; the entries of a failed
\* bulk update are in no later bulk update nor queued again; a failed bulk
\* update sets the degraded flag; and the run still reads, looks up and
\* flushes everything after it.
C8_FailedWriteNotReissued ==
    variant = "batched" =>
        /\ \A a \in FailedWrites :
             /\ Range(writes[a].entries) \cap Range(updateBatch) = {}
             /\ \A b \in 1..Len(writes) :
                  a < b =>
                    Range(writes[a].entries) \cap Range(writes[b].entries) = {}
        /\ FailedWrites # {} => airtableErrorOccurred
        /\ pc = "exited" =>
             /\ Len(offered) = nRows
             /\ updateBatch = <<>>
             /\ UNION {Range(lookups[k].users) : k \in 1..Len(lookups)} =
                    {UserIds[k] : k \in 1..nRows}

C8_FlushSendsAllAndClears ==
    (variant = "batched" /\ writes' # writes) =>
        /\ Len(writes') = Len(writes) + 1
        /\ SubSeq(writes', 1, Len(writes)) = writes
        /\ writes'[Len(writes')].entries = updateBatch
        /\ updateBatch # <<>>
        /\ updateBatch' = <<>>

\* C8: each flush is one bulk update of the whole queue, which is then
\* empty; a failed bulk update is never re-issued and the run goes on.
C8_FlushOnceThenClear ==
    [] C8_FailedWriteNotReissued /\ [][C8_FlushSendsAllAndClears]_vars

C8_Witness ==
    /\ variant = "batched"
    /\ pc = "exited"
    /\ Len(writes) = 2
    /\ ~writes[1].ok /\ ~writes[1].final
    /\ writes[2].ok /\ writes[2].final
    /\ Len(lookups) = 2
    /\ \E e \in Range(writes[2].entries) : e.src \in Range(lookups[2].users)

\* C9: in the batched sync a failed lookup call sets the degraded flag,
\* leaves the queue as it was and returns to the caller; the rows of the
\* failed batch never produce an entry; no row is looked up twice; and the
\* run still looks up every later batch and page.
C9_FailedBatchSkipped ==
    variant = "batched" =>
        /\ FailedLookups # {} => airtableErrorOccurred
        /\ \A k \in FailedLookups :
             \A e \in WrittenEntries \cup Range(updateBatch) :
                e.src \notin Range(lookups[k].users)
        /\ \A a, b \in 1..Len(lookups) :
             a # b =>
                Range(lookups[a].users) \cap Range(lookups[b].users) = {}
        /\ pc = "exited" =>
             UNION {Range(lookups[k].users) : k \in 1..Len(lookups)} =
                 {UserIds[k] : k \in 1..nRows}

C9_FailedLookupStep ==
    (variant = "batched" /\ lookups' # lookups
        /\ ~lookups'[Len(lookups')].ok) =>
        /\ airtableErrorOccurred'
        /\ updateBatch' = updateBatch
        /\ writes' = writes
        /\ userLookupBatch' = <<>>
        /\ pc' = ret

\* C9: a failed lookup skips its batch, without retry, and the run goes on.
C9_LookupFailureSkipsBatch ==
    [] C9_FailedBatchSkipped /\ [][C9_FailedLookupStep]_vars

C9_Witness ==
    /\ variant = "batched"
    /\ pc = "exited"
    /\ Len(lookups) = 2
    /\ ~lookups[1].ok
    /\ lookups[2].ok
    /\ \E e \in WrittenEntries : e.src \in Range(lookups[2].users)
    /\ exitCode = 1

\* C10: in the batched sync, when the row being processed resolves to a
\* record id that already has a queued entry, the entry is replaced by the
\* row's own update if and only if the row's last_heartbeat is strictly
\* greater than that of the row the queued entry was built from; otherwise
\* the queue is unchanged.  The queue never holds two entries for one record.
C10_OneEntryPerRecord ==
    variant = "batched" =>
        \A a, b \in 1..Len(updateBatch) :
            a # b => updateBatch[a].id # updateBatch[b].id

C10_MergeStep ==
    (variant = "batched" /\ pc = "prepare" /\ j <= Len(userLookupBatch)) =>
        LET user == userLookupBatch[j]
            recId == FindRecordId(airtableRecordMap, user.userId,
                                  user.userEmail)
            k == IndexOfId(updateBatch, recId)
        IN  (/\ user.userId = emailHeartbeatMap[user.userEmail].userId
             /\ recId # ""
             /\ k # 0) =>
                /\ IF RowOf(user.userId).last_heartbeat >
                        RowOf(updateBatch[k].src).last_heartbeat
                   THEN updateBatch' =
                          [updateBatch EXCEPT
                             ![k] = MakeUpdate(recId, RowOf(user.userId))]
                   ELSE updateBatch' = updateBatch
                /\ Cardinality({m \in 1..Len(updateBatch') :
                                   updateBatch'[m].id = recId}) = 1

\* C10: the enqueue merge rule: replace if and only if strictly newer, one
\* entry per record id.
C10_EnqueueMergeRule == [] C10_OneEntryPerRecord /\ [][C10_MergeStep]_vars

\* U1 queues recA, the older U2 leaves it as it is, U3 is superseded, and
\* the newer U4 replaces it.
C10_Witness ==
    /\ variant = "batched"
    /\ airtable = TableSparse
    /\ FailedCalls = 0
    /\ writes = <<>>
    /\ Len(offered) = 4
    /\ offered[1].email = "e1" /\ offered[1].last_heartbeat = 1
    /\ offered[2].email = "e2" /\ offered[2].last_heartbeat = 1
    /\ offered[3].email = "e1"
    /\ offered[4].email = "e2" /\ offered[4].last_heartbeat = 2
    /\ pc = "finalFlush"
    /\ Len(lookups) = 2
    /\ updateBatch = <<MakeUpdate("recA", offered[4])>>

\* ---------------------------------------------------------------- C11
\* The ids some lookup call asked for so far.
LookedUpIds == UNION {Range(lookups[k].users) : k \in 1..Len(lookups)}

\* The number of rows the for-loop has taken from the fetched pages.
RowsRead ==
    IF variant = "batched"
    THEN Len(offered)
    ELSE Cardinality({k \in 1..Len(lookups) : lookups[k].by = "slack_id"})

\* The loop over the pages ended without a source failure.
LoopEnded == pc \in {"finalFlush", "exitStatus", "exited"}

\* At the head of the loop the offset counts the full pages processed: it is
\* the rows read so far rounded down to a multiple of limit.  When the loop
\* has ended, every row of the feed, those of a short last page included,
\* was read and asked for in a lookup call.
C11_PagesFullyProcessed ==
    /\ pc = "while" => offset = limit * (RowsRead \div limit)
    /\ offset <= RowsRead /\ RowsRead <= offset + pageLen
    /\ LoopEnded =>
          /\ RowsRead = nRows
          /\ \A k \in 1..nRows : UserIds[k] \in LookedUpIds
          /\ variant = "batched" =>
                \A k \in 1..nRows : offered[k].id = UserIds[k]

\* The offset only changes after a full page, by exactly limit; a page is
\* only fetched first or after a full page; a fetch that returns an empty
\* page processes nothing and stops the loop; the stopped loop ends without
\* error.
C11_ExhaustionStep ==
    /\ offset' # offset => pageLen = limit /\ offset' = offset + limit
    /\ fetches' # fetches => fetches = 0 \/ pageLen = limit
    /\ (fetches' # fetches /\ pc' # "catch" /\ PageLength(nRows, offset) = 0) =>
          /\ ~hasMore' /\ pc' = "while"
          /\ lookups' = lookups /\ writes' = writes /\ offered' = offered
          /\ updateBatch' = updateBatch /\ offset' = offset
    /\ (pc = "while" /\ ~hasMore) =>
          pc' \in {"finalFlush", "exitStatus"} /\ fetches' = fetches

\* C11: in both sync variants, a page shorter than limit but non-empty is
\* fully processed (every row offered and resolved) and no fetch follows it;
\* an empty page stops the loop without processing anything and without
\* error; the offset grows by exactly limit after a full page and is left
\* unchanged otherwise.
C11_ExhaustionPolicy ==
    [] C11_PagesFullyProcessed /\ [][C11_ExhaustionStep]_vars

\* A full page, then a short page of one row, then the exit.
C11_Witness ==
    /\ pc = "exited"
    /\ nRows = limit + 1
    /\ fetches = 2
    /\ offset = limit
    /\ UserIds[nRows] \in LookedUpIds

\* ---------------------------------------------------------------- C12
\* The run is in, or past, the catch block of processRecords: connect or a
\* page query threw.
SourceFailed == pc \in {"catch", "done"}

\* After the failure no source, lookup or bulk-update call is issued and the
\* queue is left as it was.
C12_NoCallAfterFailure ==
    SourceFailed =>
        /\ fetches' = fetches
        /\ lookups' = lookups
        /\ writes' = writes
        /\ updateBatch' = updateBatch
        /\ SourceFailed'

\* C12: in both sync variants, when a page query (or the initial connect)
\* fails the run stops: no further page fetch, lookup call or bulk-update
\* call is issued after the failure, and the source connection is then
\* released.
C12_SourceFatalAbort ==
    /\ [][C12_NoCallAfterFailure]_vars
    /\ [](pc = "done" => ~clientOpen)
    /\ (pc = "catch") ~> (pc = "done" /\ ~clientOpen)

\* The second page query failed with entries still queued: they are never
\* written and the connection is closed.
C12_Witness ==
    /\ pc = "done"
    /\ ~clientOpen
    /\ fetches = 2
    /\ Len(lookups) >= 1
    /\ Len(updateBatch) > 0
    /\ writes = <<>>

\* ---------------------------------------------------------------- C13
\* The aggregate a numeric field of updateData stands for, in hundredths.
AggregateOf(g) ==
    LET f == SourceField[g] IN
    IF f \in CountFields THEN 100 * arg.aggregates[1][f]
    ELSE IF arg.aggregates[2][f].logged THEN arg.aggregates[2][f].hundredths
    ELSE 0

\* C13: in every update field-set built by either sync variant, each of the
\* four counts and the two hours-logged fields is null whenever the source
\* aggregate is 0 (or there is none) and the source value otherwise; no
\* field-set holds the number 0 in a numeric field.
C13_ZeroBecomesNull ==
    (fn = "updateData" /\ pc = "returned") =>
        \A g \in DOMAIN SourceField :
            /\ AggregateOf(g) = 0 => result[g] = Null
            /\ AggregateOf(g) # 0 => result[g] = <<AggregateOf(g)>>
            /\ result[g] # <<0>>

\* A count of 0, a user with 0.00 hours in all and none in the last 30
\* days, next to a count of MaxCount.
C13_Witness ==
    /\ fn = "updateData" /\ pc = "returned"
    /\ arg.row["known_machine_count"] = NatText(MaxCount)
    /\ arg.row["30_day_active_machine_count"] = <<"0">>
    /\ arg.row["total_hours_logged"] = <<"0", ".", "0", "0">>
    /\ ~arg.aggregates[2]["30_day_hours_logged"].logged
    /\ result["waka_known_machine_count"] = <<100 * MaxCount>>
    /\ result["waka_30_day_active_machine_count"] = Null
    /\ result["waka_total_hours_logged"] = Null
    /\ result["waka_30_day_hours_logged"] = Null

\* ---------------------------------------------------------------- C14
RECURSIVE JsonTexts(_, _, _)
\* JSON.parse of an array of texts without escapes: what stands between
\* the quotes.
JsonTexts(s, open, cur) ==
    IF s = <<>> THEN <<>>
    ELSE IF s[1] = "\""
         THEN IF open THEN <<cur>> \o JsonTexts(Tail(s), FALSE, <<>>)
              ELSE JsonTexts(Tail(s), TRUE, <<>>)
         ELSE IF open THEN JsonTexts(Tail(s), TRUE, Append(cur, s[1]))
              ELSE JsonTexts(Tail(s), FALSE, cur)

\* The entries the claim removes: null, empty, whitespace-only, or empty
\* after removing every '|'.
StatedKeeps(item) ==
    ~ \/ item.isNull
      \/ item.text = <<>>
      \/ \A k \in 1..Len(item.text) : item.text[k] \in Whitespace
      \/ \A k \in 1..Len(item.text) : item.text[k] = "|"

\* The entries the code removes: null, or made of nothing but whitespace
\* and '|'.
BlankKeeps(item) ==
    ~ \/ item.isNull
      \/ \A k \in 1..Len(item.text) : item.text[k] \in Whitespace \cup {"|"}

TextsOf(items) == [k \in 1..Len(items) |-> items[k].text]
ItemsOf(texts) == [k \in 1..Len(texts) |-> TextItem(texts[k])]

\* C14 as stated: the filter of sanitizeAndSerialize removes the entries
\* that are null, empty, whitespace-only, or empty after removing every
\* '|', and keeps all others in order.
C14_FilterAsStated ==
    (fn = "sanitizeAndSerialize" /\ pc = "returned" /\ arg.isArray) =>
        LET kept == SelectSeq(arg.items, StatedKeeps) IN
        IF kept = <<>> THEN result = Null
        ELSE result # Null /\ JsonTexts(result, FALSE, <<>>) = TextsOf(kept)

\* C14, amended: the filter removes the entries that are null or made of
\* nothing but whitespace and '|' (the empty text included) and keeps all
\* others in order; filtering an already-filtered list returns it
\* unchanged; when nothing survives, and for a value that is no array, the
\* result is null, never an empty array.
C14_FilterRule ==
    (fn = "sanitizeAndSerialize" /\ pc = "returned") =>
        /\ result # <<"[", "]">>
        /\ ~arg.isArray => result = Null
        /\ arg.isArray =>
              LET kept == SelectSeq(arg.items, BlankKeeps)
                  out == ItemsOf(JsonTexts(result, FALSE, <<>>))
              IN  /\ kept = <<>> => result = Null
                  /\ kept # <<>> => result # Null /\ out = kept
                  /\ Filter(out) = out
                  /\ SelectSeq(out, IdxKeep) = out

\* An array with an entry of whitespace and '|' and an entry to keep.
C14_Witness ==
    /\ fn = "sanitizeAndSerialize" /\ pc = "returned"
    /\ arg.isArray
    /\ arg.items = <<TextItem(<<" ", "|">>), TextItem(<<"a", "|">>)>>
    /\ result = <<"[", "\n", " ", " ", "\"", "a", "|", "\"", "\n", "]">>

\* ---------------------------------------------------------------- C15
RECURSIVE Literals(_, _, _, _)
\* The quoted literals of a formula, read as the formula language reads
\* them: a quote opens a literal, two quotes inside stand for one, a single
\* quote closes it.
Literals(s, open, cur, acc) ==
    IF s = <<>> THEN [values |-> acc, closed |-> ~open]
    ELSE IF ~open
         THEN IF s[1] = "'" THEN Literals(Tail(s), TRUE, <<>>, acc)
              ELSE Literals(Tail(s), FALSE, cur, acc)
         ELSE IF s[1] # "'"
              THEN Literals(Tail(s), TRUE, Append(cur, s[1]), acc)
              ELSE IF Len(s) >= 2 /\ s[2] = "'"
                   THEN Literals(Tail(Tail(s)), TRUE, Append(cur, "'"), acc)
                   ELSE Literals(Tail(s), FALSE, <<>>, Append(acc, cur))

QuotesIn(s) == Cardinality({k \in 1..Len(s) : s[k] = "'"})

RECURSIVE QuotesInAll(_)
QuotesInAll(values) ==
    IF values = <<>> THEN 0
    ELSE QuotesIn(values[1]) + QuotesInAll(Tail(values))

\* C15: every entity id and email inserted into a lookup filter -- by
\* buildOrFormula, and in the two filterByFormula of index.js -- has each
\* single quote doubled, so the quoted literal holds no unpaired quote and
\* reads back as the original value.
C15_QuotesDoubled ==
    (fn = "filterByFormula" /\ pc = "returned") =>
        LET read == Literals(result, FALSE, <<>>, <<>>) IN
        /\ read.closed
        /\ read.values = arg.values
        /\ QuotesIn(result) = 2 * Len(arg.values) + 2 * QuotesInAll(arg.values)

\* Two keys with quotes in one OR formula.
C15_Witness ==
    /\ fn = "filterByFormula" /\ pc = "returned"
    /\ variant = "batched"
    /\ arg.fieldName = "email"
    /\ arg.values = << <<"'", "a">>, <<",", "'">> >>
    /\ Len(result) = 28

\* ---------------------------------------------------------------- C16
\* The step of lookupAndUpdateUsers that handles one user of the batch.
HandlesUser == variant = "batched" /\ pc = "prepare" /\ j <= Len(userLookupBatch)

\* The entries the step put in the queue, new or in place of an older one.
QueuedByStep == Range(updateBatch') \ Range(updateBatch)

\* C16: in the batched sync, whenever handling a row creates or replaces a
\* queued entry, the row's id is the id emailHeartbeatMap holds for the
\* row's email at that moment and the entry is built from the row stored
\* there; a row that is not the current winner changes neither the queue nor
\* airtableErrorOccurred.
C16_EligibilityStep ==
    HandlesUser =>
        LET user == userLookupBatch[j]
            emailEntry == emailHeartbeatMap[user.userEmail]
        IN  /\ updateBatch' # updateBatch =>
                  /\ user.userId = emailEntry.userId
                  /\ emailEntry.record.id = user.userId
                  /\ QueuedByStep # {}
                  /\ \A e \in QueuedByStep :
                        e = MakeUpdate(e.id, emailEntry.record)
            /\ user.userId # emailEntry.userId =>
                  /\ updateBatch' = updateBatch
                  /\ airtableErrorOccurred' = airtableErrorOccurred
                  /\ writes' = writes

\* C16: every step of the batched sync obeys the eligibility re-check.
C16_EligibilityRecheck == [][C16_EligibilityStep]_vars

\* U1, which has a record in Airtable, lost its email to U2 before its batch
\* was resolved and was skipped; U3 of the next batch was queued.
C16_Witness ==
    /\ variant = "batched"
    /\ airtable = TableSparse
    /\ pc = "prepare"
    /\ Len(offered) >= 3
    /\ offered[1].email = "e1"
    /\ "e1" \in DOMAIN emailHeartbeatMap
    /\ emailHeartbeatMap["e1"].userId = "U2"
    /\ j = 2
    /\ userLookupBatch[1].userId = "U3"
    /\ updateBatch = <<MakeUpdate("recC", offered[3])>>

\* ---------------------------------------------------------------- C17
\* The records of the table a winner's id, and its email, select.
BySlackId(user) == {r \in airtable : r.slack_id = user.userId}
ByEmail(user) == {r \in airtable : r.email = user.userEmail}
Target(user) == IF BySlackId(user) # {} THEN BySlackId(user) ELSE ByEmail(user)

\* C17: in the batched sync, each row resolves to at most one record: the
\* record whose slack_id is the row's id, even when another record matches
\* the row's email; the record matching the email only when none matches the
\* id; when neither matches the row is skipped, nothing is queued and
\* airtableErrorOccurred is not set.
C17_ResolutionStep ==
    (HandlesUser /\ ~NotLatest(userLookupBatch[j].userId,
                               emailHeartbeatMap[userLookupBatch[j].userEmail])) =>
        LET user == userLookupBatch[j] IN
        /\ Cardinality(Target(user)) <= 1
        /\ Target(user) = {} =>
              /\ updateBatch' = updateBatch
              /\ airtableErrorOccurred' = airtableErrorOccurred
              /\ pc' = "prepare"
        /\ \A t \in Target(user) :
              /\ \E k \in 1..Len(updateBatch') : updateBatch'[k].id = t.id
              /\ \A e \in QueuedByStep : e.id = t.id /\ e.src = user.userId

\* C17: every step of the batched sync obeys the resolution order.
C17_IdentityResolution == [][C17_ResolutionStep]_vars

\* U1 with email e1: recA matches its id, recB its email; recA is queued.
C17_Witness ==
    /\ variant = "batched"
    /\ airtable = TableShared
    /\ Len(offered) >= 1
    /\ offered[1].email = "e1"
    /\ updateBatch = <<MakeUpdate("recA", offered[1])>>
    /\ pc = "prepare"

\* ---------------------------------------------------------------- C18
\* C18: in the batched sync, every bulk update carries pairwise distinct
\* record ids, and each entry it carries is, as a whole, what one row of the
\* feed builds.
C18_DistinctSingleRowEntries ==
    variant = "batched" =>
        \A w \in 1..Len(writes) :
            LET es == writes[w].entries IN
            /\ \A a, b \in 1..Len(es) : es[a].id = es[b].id => a = b
            /\ \A a \in 1..Len(es) :
                  /\ es[a].src \in {r.id : r \in Range(offered)}
                  /\ es[a] = MakeUpdate(es[a].id, RowOf(es[a].src))

\* U1 and then the newer U2 both resolve to recA; the bulk update carries
\* recA once, as U2 built it, next to recC.
C18_Witness ==
    /\ variant = "batched"
    /\ airtable = TableShared
    /\ Len(writes) = 1
    /\ Len(offered) >= 3
    /\ offered[1].email = "e1"
    /\ offered[2].last_heartbeat > offered[1].last_heartbeat
    /\ writes[1].entries = <<MakeUpdate("recA", offered[2]),
                             MakeUpdate("recC", offered[3])>>

\* ---------------------------------------------------------------- C19
\* C19: in the batched sync, over a whole run each record id is carried by
\* at most one bulk update, so no record is written twice in one run with
\* the data of two different rows.  (Stated for the runs in which no call
\* failed, where it already fails.)
C19_RecordWrittenOncePerRun ==
    (variant = "batched" /\ FailedCalls = 0) =>
        \A w1, w2 \in 1..Len(writes) :
            \A a \in 1..Len(writes[w1].entries) :
                \A b \in 1..Len(writes[w2].entries) :
                    writes[w1].entries[a].id = writes[w2].entries[b].id
                        => w1 = w2

\* ---------------------------------------------------------------- C20
\* C20: in the per-row sync, a run in which a lookup call (by slack_id or by
\* email) fails for some row while every other call succeeds exits with
\* status 1.
C20_FailedLookupExitsDegraded ==
    (variant = "perrow" /\ pc = "exited"
        /\ FailedLookups # {} /\ FailedWrites = {}) =>
        exitCode = 1

\* ---------------------------------------------------------------- C21
\* C21: in the per-row sync, every bulk update carries pairwise distinct
\* record ids, also when several rows resolve to the same record within one
\* batch.  (Stated for the runs in which no call failed, where it already
\* fails.)
C21_IdxDistinctIdsPerUpdate ==
    (variant = "perrow" /\ FailedCalls = 0) =>
        \A w \in 1..Len(writes) :
            \A a, b \in 1..Len(writes[w].entries) :
                writes[w].entries[a].id = writes[w].entries[b].id => a = b

\* ---------------------------------------------------------------- C22
RECURSIVE LookedUpUpTo(_)
\* The ids the first k lookup calls asked for, in order.
LookedUpUpTo(k) ==
    IF k = 0 THEN <<>> ELSE LookedUpUpTo(k - 1) \o lookups[k].users

\* lookupAndUpdateUsers is running: the accumulator still holds the batch
\* the last lookup call was issued for.
InLookup == pc \in {"prepare", "flushFull"}

\* The ids accumulated for a lookup call not issued yet.
Accumulated ==
    IF InLookup THEN <<>>
    ELSE [k \in 1..Len(userLookupBatch) |-> userLookupBatch[k].userId]

\* Every row read is in exactly one lookup batch, in feed order, issued or
\* still accumulating; a batch holds 1 to LookupBatchSize rows; at the end
\* of the loop nothing is left in the accumulator.
C22_EachRowInOneBatch ==
    variant = "batched" =>
        /\ LookedUpUpTo(Len(lookups)) \o Accumulated =
              [k \in 1..Len(offered) |-> offered[k].id]
        /\ \A k \in 1..Len(lookups) :
              /\ Len(lookups[k].users) >= 1
              /\ Len(lookups[k].users) <= LookupBatchSize
        /\ Len(userLookupBatch) <= LookupBatchSize
        /\ pc \in {"finalFlush", "exitStatus", "exited"} =>
              userLookupBatch = <<>>

\* A page is fetched with an empty accumulator and every row read so far
\* already asked for.
C22_FetchStep ==
    (variant = "batched" /\ fetches' # fetches) =>
        /\ userLookupBatch = <<>>
        /\ \A k \in 1..Len(offered) : offered[k].id \in LookedUpIds

\* C22: lookup batching in the batched sync: every fetched row is placed in
\* exactly one lookup batch; a batch holds at most LookupBatchSize rows and
\* issues exactly one lookup call; a batch never spans two pages, so every
\* row of a page is resolved before the next page is fetched.
C22_LookupBatching == [] C22_EachRowInOneBatch /\ [][C22_FetchStep]_vars

\* A full batch, then the one row left on the short last page as a batch of
\* its own.
C22_Witness ==
    /\ variant = "batched"
    /\ pc = "exited"
    /\ nRows = LookupBatchSize + 1
    /\ Len(lookups) = 2
    /\ Len(lookups[1].users) = LookupBatchSize
    /\ lookups[2].users = <<UserIds[nRows]>>

\* ---------------------------------------------------------------- C23
\* The loop of part_000 ended by itself, not by an exception.
QryLoopEnded == variant = "queryonly" /\ pc \in {"finally", "done"} /\ ~hasMore

C23_QryFetchCount ==
    variant = "queryonly" =>
        /\ fetches <= Ceil(nRows, limit) + 1
        /\ QryLoopEnded =>
              /\ fetches = Ceil(nRows, limit) + 1
              /\ Len(offered) = nRows
        /\ pc = "done" => ~clientOpen

\* The loop that stopped goes to the finally block, not to catch.
C23_QryEndsWithoutError ==
    (variant = "queryonly" /\ pc = "while" /\ ~hasMore) =>
        pc' = "finally" /\ fetches' = fetches

C24_NoLostOrRepeatedUpdate ==
    variant = "batched" =>
        /\ Range(updateBatch) = sinceFlush
        /\ \A k \in 1..Len(writes) :
              /\ Range(writes[k].entries) = writes[k].since
              /\ Cardinality(writes[k].since) = Len(writes[k].entries)
        /\ \A a, b \in 1..Len(writes) :
              a # b =>
                Range(writes[a].entries) \cap Range(writes[b].entries) = {}
        /\ \A k \in 1..Len(writes) :
              Range(writes[k].entries) \cap Range(updateBatch) = {}
        /\ pc \in {"exitStatus", "exited"} =>
              updateBatch = <<>> /\ sinceFlush = {}

\* U1's entry for recA is replaced by the newer U2's; the full queue is
\* sent and the call fails; U4's entry goes out with the final bulk update.
C24_Witness ==
    /\ variant = "batched"
    /\ airtable = TableShared
    /\ pc = "exited"
    /\ exitCode = 1
    /\ Len(offered) = 4
    /\ offered[1].email = "e1"
    /\ Len(writes) = 2
    /\ ~writes[1].ok
    /\ writes[1].entries = <<MakeUpdate("recA", offered[2]),
                             MakeUpdate("recC", offered[3])>>
    /\ writes[2].ok
    /\ writes[2].entries = <<MakeUpdate("recD", offered[4])>>

====
